---- MODULE Spec2Model ----
(***************************************************************************)
(* Model of capacitor-passkey-plugin: the credential/session store          *)
(* (CapacitorStorageAdapter over @capacitor/preferences), and the          *)
(* SimpleWebAuthn adapter (asSimpleWebAuthn: normalizers, public-key        *)
(* recovery, error mapping).                                               *)
(*                                                                         *)
(* JavaScript values are tagged records so that TLC can compare them:      *)
(*   [t |-> type tag, s |-> opaque string, n |-> number, b |-> sequence]   *)
(* A string whose characters matter (base64 text) carries them in b as     *)
(* character codes: 0..63 the base64 alphabet, 64 '=', 65 a character      *)
(* outside the alphabet, 66 ASCII whitespace, 67 '-', 68 '_'.  A           *)
(* Uint8Array carries its                                                  *)
(* bytes in b.  An object is a function from field names to values; an     *)
(* own property holding undefined is a field whose value is Undef.         *)
(***************************************************************************)
EXTENDS Integers, Sequences, FiniteSets, TLC

\* ------------------------------------------------------------------------
\* Bounds of the model
\* ------------------------------------------------------------------------
MaxKeyLen == 3
MaxBufferLen == 3
MaxArrivals == 3

\* ------------------------------------------------------------------------
\* JavaScript values
\* ------------------------------------------------------------------------
Str(s) == [t |-> "string", s |-> s, n |-> 0, b |-> <<>>]
Txt(chars) == [t |-> "string", s |-> "", n |-> 0, b |-> chars]
Num(n) == [t |-> "number", s |-> "", n |-> n, b |-> <<>>]
U8(bytes) == [t |-> "Uint8Array", s |-> "", n |-> 0, b |-> bytes]
Undef == [t |-> "undefined", s |-> "", n |-> 0, b |-> <<>>]

EmptyObj == [f \in {} |-> Undef]

\* { ...a, ...b }: own properties of b override those of a, undefined included
Spread(a, b) ==
    [f \in DOMAIN a \cup DOMAIN b |-> IF f \in DOMAIN b THEN b[f] ELSE a[f]]

\* obj.f: undefined when the property is missing
Field(obj, f) == IF f \in DOMAIN obj THEN obj[f] ELSE Undef

\* ------------------------------------------------------------------------
\* Strings held by the key-value store
\*   kind "json-object": text of a JSON object, obj its members
\*   kind "json-array" : text of a JSON array, arr its elements
\*   kind "json-null"  : the text null
\*   kind "text"       : text that is not JSON
\*   kind "empty"      : the empty string
\*   kind "null"       : no string at all (JavaScript null)
\* ------------------------------------------------------------------------
StringOf(kind, obj, arr) == [kind |-> kind, obj |-> obj, arr |-> arr]
NullString == StringOf("null", EmptyObj, <<>>)
EmptyString == StringOf("empty", EmptyObj, <<>>)
NotJson == StringOf("text", EmptyObj, <<>>)
JsonNull == StringOf("json-null", EmptyObj, <<>>)

\* !value
Falsy(str) == str.kind \in {"null", "empty"}

\* JSON.stringify(object): members holding undefined are left out
JSONstringifyObject(obj) ==
    StringOf("json-object",
             [f \in {g \in DOMAIN obj : obj[g] # Undef} |-> obj[f]],
             <<>>)

\* JSON.stringify(array of strings)
JSONstringifyArray(arr) == StringOf("json-array", EmptyObj, arr)

\* JSON.parse(text): a value, or a SyntaxError
JSONparse(str) ==
    CASE str.kind = "json-object" -> [t |-> "object", obj |-> str.obj, arr |-> <<>>]
      [] str.kind = "json-array" -> [t |-> "array", obj |-> EmptyObj, arr |-> str.arr]
      [] str.kind = "json-null" -> [t |-> "null", obj |-> EmptyObj, arr |-> <<>>]
      [] OTHER -> [t |-> "throw", obj |-> EmptyObj, arr |-> <<>>]

\* ------------------------------------------------------------------------
\* base64 (btoa / atob of the runtime, used by toBase64 / fromBase64)
\* ------------------------------------------------------------------------
Pad == 64
BadChar == 65
Space == 66

\* character k of the text: 3 bytes make 4 characters, the last group padded
btoa(bytes) ==
    [k \in 1..(4 * ((Len(bytes) + 2) \div 3)) |->
        LET first == 3 * ((k - 1) \div 4) + 1
            b1 == bytes[first]
            b2 == IF first + 1 <= Len(bytes) THEN bytes[first + 1] ELSE 0
            b3 == IF first + 2 <= Len(bytes) THEN bytes[first + 2] ELSE 0
        IN CASE (k - 1) % 4 = 0 -> b1 \div 4
             [] (k - 1) % 4 = 1 -> (b1 % 4) * 16 + (b2 \div 16)
             [] (k - 1) % 4 = 2 ->
                    IF first + 1 > Len(bytes) THEN Pad
                    ELSE (b2 % 16) * 4 + (b3 \div 64)
             [] (k - 1) % 4 = 3 ->
                    IF first + 2 > Len(bytes) THEN Pad ELSE b3 % 64]

\* the sextets of a padding-free base64 text, decoded; left-over bits dropped
DecodeSextets(c) ==
    [k \in 1..(3 * (Len(c) \div 4)
                 + (IF Len(c) % 4 > 1 THEN (Len(c) % 4) - 1 ELSE 0)) |->
        LET first == 4 * ((k - 1) \div 3) + 1
        IN CASE (k - 1) % 3 = 0 -> c[first] * 4 + (c[first + 1] \div 16)
             [] (k - 1) % 3 = 1 ->
                    (c[first + 1] % 16) * 16 + (c[first + 2] \div 4)
             [] (k - 1) % 3 = 2 -> (c[first + 2] % 4) * 64 + c[first + 3]]

\* one or two trailing '=' of a text whose length is a multiple of 4 are dropped
StripPadding(c) ==
    IF Len(c) % 4 # 0 \/ Len(c) = 0 THEN c
    ELSE IF c[Len(c)] # Pad THEN c
    ELSE IF c[Len(c) - 1] # Pad THEN SubSeq(c, 1, Len(c) - 1)
    ELSE SubSeq(c, 1, Len(c) - 2)

\* atob(text): the bytes, or an InvalidCharacterError
atob(chars) ==
    LET noSpace == SelectSeq(chars, LAMBDA ch : ch # Space)
        data == StripPadding(noSpace)
    IN IF Len(data) % 4 = 1 \/ \E i \in 1..Len(data) : data[i] >= Pad
       THEN [ok |-> FALSE, bytes |-> <<>>]
       ELSE [ok |-> TRUE, bytes |-> DecodeSextets(data)]

\* String(value) as the characters atob sees
ToChars(value) ==
    CASE value.t = "string" -> value.b
      [] value.t = "undefined" -> <<46, 39, 29, 30, 31, 34, 39, 30, 29>>

toBase64(input) == Txt(btoa(input.b))

\* fromBase64 whose copy loop starts at index 1: byte 0 stays 0
fromBase64SkipsFirst(input) ==
    LET binary == atob(ToChars(input))
    IN [ok |-> binary.ok,
        value |-> U8([i \in 1..Len(binary.bytes) |->
                         IF i = 1 THEN 0 ELSE binary.bytes[i]])]

fromBase64(input) ==
    LET binary == atob(ToChars(input))
    IN [ok |-> binary.ok, value |-> U8(binary.bytes)]

serializeCredential(credential) ==
    Spread(credential, [publicKey |-> toBase64(credential.publicKey)])

\* results of an operation that returns a record or null, or throws
Null == [t |-> "null", obj |-> EmptyObj]
Threw == [t |-> "throw", obj |-> EmptyObj]
Ok(obj) == [t |-> "ok", obj |-> obj]

\* payload is a JSONparse result that is not a throw
deserializeCredential(payload) ==
    IF payload.t = "null" THEN Threw
    ELSE LET publicKey == fromBase64(Field(payload.obj, "publicKey"))
         IN IF ~publicKey.ok THEN Threw
            ELSE Ok(Spread(payload.obj, [publicKey |-> publicKey.value]))

\* ------------------------------------------------------------------------
\* The key-value store (Preferences): a map from keys to strings
\* ------------------------------------------------------------------------
PrefGet(mem, key) == IF key \in DOMAIN mem THEN mem[key] ELSE NullString

PrefSet(mem, key, value) ==
    [k \in DOMAIN mem \cup {key} |-> IF k = key THEN value ELSE mem[k]]

PrefRemove(mem, key) == [k \in DOMAIN mem \ {key} |-> mem[k]]

EmptyMemory == [k \in {} |-> NullString]

SetCall(key) == [call |-> "set", key |-> key]
RemoveCall(key) == [call |-> "remove", key |-> key]

\* ------------------------------------------------------------------------
\* CapacitorStorageAdapter
\* ------------------------------------------------------------------------
credentialKey(prefix, credentialId) == prefix \o ":credential:" \o credentialId

indexKey(prefix) == prefix \o ":credentials-index"

sessionKey(prefix) == prefix \o ":session"

getCredentialIndex(prefix, mem) ==
    LET stored == PrefGet(mem, indexKey(prefix))
    IN IF Falsy(stored) THEN <<>>
       ELSE LET parsed == JSONparse(stored)
            IN IF parsed.t = "array" THEN parsed.arr ELSE <<>>

setCredentialIndex(prefix, mem, index) ==
    PrefSet(mem, indexKey(prefix), JSONstringifyArray(index))

\* a membership test that looks at the first entry only
includesFirstOnly(index, credentialId) ==
    index # <<>> /\ index[1] = credentialId

includes(index, credentialId) == \E i \in 1..Len(index) : index[i] = credentialId

\* the body of get's try block
ParseCredential(value) ==
    LET parsed == JSONparse(value)
    IN IF parsed.t = "throw" THEN Threw ELSE deserializeCredential(parsed)

\* a get without the try/catch around parsing: the error escapes
getUncaught(prefix, mem, credentialId) ==
    LET value == PrefGet(mem, credentialKey(prefix, credentialId))
    IN IF Falsy(value) THEN Null ELSE ParseCredential(value)

get(prefix, mem, credentialId) ==
    LET value == PrefGet(mem, credentialKey(prefix, credentialId))
    IN IF Falsy(value) THEN Null
       ELSE LET parsed == ParseCredential(value)
            IN IF parsed.t = "throw" THEN Null ELSE parsed

\* getAll's loop over the index: the records read so far, or the throw of a get
RECURSIVE CollectCredentials(_, _, _, _)
CollectCredentials(prefix, mem, index, results) ==
    IF index = <<>> THEN [t |-> "ok", list |-> results]
    ELSE LET credential == get(prefix, mem, Head(index))
         IN IF credential.t = "throw" THEN [t |-> "throw", list |-> <<>>]
            ELSE CollectCredentials(prefix, mem, Tail(index),
                     IF credential.t = "ok" THEN Append(results, credential.obj)
                     ELSE results)

getAll(prefix, mem) ==
    CollectCredentials(prefix, mem, getCredentialIndex(prefix, mem), <<>>)

\* a filter that compares the credentialId instead of the contractId
getByContractWrongField(prefix, mem, contractId) ==
    LET all == getAll(prefix, mem)
    IN IF all.t = "throw" THEN all
       ELSE [t |-> "ok",
             list |-> SelectSeq(all.list,
                          LAMBDA credential : Field(credential, "credentialId") = contractId)]

getByContract(prefix, mem, contractId) ==
    LET all == getAll(prefix, mem)
    IN IF all.t = "throw" THEN all
       ELSE [t |-> "ok",
             list |-> SelectSeq(all.list,
                          LAMBDA credential : Field(credential, "contractId") = contractId)]

\* A mutating operation yields the store after it and the Preferences calls made
Effect(mem, writes) == [mem |-> mem, writes |-> writes]

save(prefix, mem, credential) ==
    LET index == getCredentialIndex(prefix, mem)
        serialized == JSONstringifyObject(serializeCredential(credential))
        key == credentialKey(prefix, credential.credentialId.s)
        written == PrefSet(mem, key, serialized)
    IN IF ~includes(index, credential.credentialId.s)
       THEN Effect(setCredentialIndex(prefix, written,
                                      Append(index, credential.credentialId.s)),
                   <<SetCall(key), SetCall(indexKey(prefix))>>)
       ELSE Effect(written, <<SetCall(key)>>)

\* a delete that removes the value and forgets the index
deleteKeepsIndex(prefix, mem, credentialId) ==
    Effect(PrefRemove(mem, credentialKey(prefix, credentialId)),
           <<RemoveCall(credentialKey(prefix, credentialId))>>)

delete(prefix, mem, credentialId) ==
    LET index == getCredentialIndex(prefix, mem)
        key == credentialKey(prefix, credentialId)
        removed == PrefRemove(mem, key)
        next == SelectSeq(index, LAMBDA id : id # credentialId)
    IN Effect(setCredentialIndex(prefix, removed, next),
              <<RemoveCall(key), SetCall(indexKey(prefix))>>)

\* a merge that lets the partial payload win over credentialId and publicKey
UpdateMergedUnguarded(credential, updates) == Spread(credential, updates)

\* the record update hands to save
UpdateMerged(credential, updates) ==
    Spread(Spread(credential, updates),
           [credentialId |-> credential.credentialId,
            publicKey |-> credential.publicKey])

\* an update that saves the payload under the id when no record is stored
updateUpsert(prefix, mem, credentialId, updates) ==
    LET credential == get(prefix, mem, credentialId)
    IN IF credential.t # "ok"
       THEN Effect(PrefSet(mem, credentialKey(prefix, credentialId),
                           JSONstringifyObject(updates)),
                   <<SetCall(credentialKey(prefix, credentialId))>>)
       ELSE save(prefix, mem, UpdateMerged(credential.obj, updates))

update(prefix, mem, credentialId, updates) ==
    LET credential == get(prefix, mem, credentialId)
    IN IF credential.t # "ok" THEN Effect(mem, <<>>)
       ELSE save(prefix, mem, UpdateMerged(credential.obj, updates))

\* clear's loop over the index
RECURSIVE RemoveCredentials(_, _, _)
RemoveCredentials(prefix, eff, index) ==
    IF index = <<>> THEN eff
    ELSE LET key == credentialKey(prefix, Head(index))
         IN RemoveCredentials(prefix,
                Effect(PrefRemove(eff.mem, key), Append(eff.writes, RemoveCall(key))),
                Tail(index))

\* a clear that leaves the session key alone
clearKeepsSession(prefix, mem) ==
    LET index == getCredentialIndex(prefix, mem)
        values == RemoveCredentials(prefix, Effect(mem, <<>>), index)
    IN Effect(PrefRemove(values.mem, indexKey(prefix)),
              Append(values.writes, RemoveCall(indexKey(prefix))))

clear(prefix, mem) ==
    LET index == getCredentialIndex(prefix, mem)
        values == RemoveCredentials(prefix, Effect(mem, <<>>), index)
    IN Effect(PrefRemove(PrefRemove(values.mem, indexKey(prefix)), sessionKey(prefix)),
              values.writes \o <<RemoveCall(indexKey(prefix)),
                                 RemoveCall(sessionKey(prefix))>>)

\* a saveSession that merges the new session over the stored one
saveSessionMerges(prefix, mem, session) ==
    LET value == PrefGet(mem, sessionKey(prefix))
        stored == IF Falsy(value) THEN EmptyObj ELSE JSONparse(value).obj
    IN Effect(PrefSet(mem, sessionKey(prefix),
                      JSONstringifyObject(Spread(stored, session))),
              <<SetCall(sessionKey(prefix))>>)

saveSession(prefix, mem, session) ==
    Effect(PrefSet(mem, sessionKey(prefix), JSONstringifyObject(session)),
           <<SetCall(sessionKey(prefix))>>)

getSession(prefix, mem) ==
    LET value == PrefGet(mem, sessionKey(prefix))
    IN IF Falsy(value) THEN Null
       ELSE LET parsed == JSONparse(value)
            IN IF parsed.t \in {"throw", "null"} THEN Null
               ELSE [t |-> parsed.t, obj |-> parsed.obj]

clearSession(prefix, mem) ==
    Effect(PrefRemove(mem, sessionKey(prefix)), <<RemoveCall(sessionKey(prefix))>>)

\* ------------------------------------------------------------------------
\* Inputs of the callers
\* ------------------------------------------------------------------------
Prefix == "test-passkey"
Ids == {"cred-1", "cred-2"}
ContractIds == {"C1", "C2"}
\* public keys of every length up to MaxKeyLen, with varied bit patterns
KeyOfLength(n) == [i \in 1..n |-> (i * 85) % 256]
PublicKeys == {KeyOfLength(n) : n \in 0..MaxKeyLen}

makeCredential(credentialId, publicKey, contractId) ==
    [credentialId |-> Str(credentialId), publicKey |-> U8(publicKey),
     contractId |-> Str(contractId), createdAt |-> Num(100)]

Credentials ==
    {makeCredential(id, pk, k) : id \in Ids, pk \in PublicKeys, k \in ContractIds}

\* partial payloads of update; the last one is outside update's declared type
\* but reaches it unchecked at run time
Updates ==
    {EmptyObj,
     [nickname |-> Str("after")],
     [nickname |-> Undef],
     [contractId |-> Str("C2"), credentialId |-> Str("cred-2"),
      publicKey |-> U8(<<9>>)]}

Sessions ==
    {[contractId |-> Str("C1"), credentialId |-> Str("cred-1"),
      connectedAt |-> Num(100), expiresAt |-> Num(200)],
     [contractId |-> Str("C1"), credentialId |-> Str("cred-1"),
      connectedAt |-> Num(1)],
     [contractId |-> Str("C2"), credentialId |-> Str("cred-2"),
      connectedAt |-> Num(1), expiresAt |-> Undef]}

\* ------------------------------------------------------------------------
\* State: one adapter with namespace Prefix over the Preferences store
\* ------------------------------------------------------------------------
VARIABLES
    memory,       \* the Preferences key-value map
    op,           \* the call that completed last, with what it made and returned
    lastSession   \* the session last saved, or that none was saved since a clear

vars == <<memory, op, lastSession>>

Void == [t |-> "void", obj |-> EmptyObj, list |-> <<>>]
Returned(result) == [t |-> result.t, obj |-> result.obj, list |-> <<>>]
ReturnedList(result) == [t |-> result.t, obj |-> EmptyObj, list |-> result.list]

\* existed: a record for id (for clear: a session) was stored when the call began
\* before: what get(id) (for saveSession: getSession()) returned when it began
Call(name, id, arg, existed, before, writes, ret) ==
    [name |-> name, id |-> id, arg |-> arg, existed |-> existed,
     before |-> before, writes |-> writes, ret |-> ret]

SessionCall(name, session) == [name |-> name, session |-> session]

Init ==
    /\ memory = EmptyMemory
    /\ op = Call("none", "", EmptyObj, FALSE, Null, <<>>, Void)
    /\ lastSession = SessionCall("cleared", EmptyObj)

SaveOp(credential) ==
    LET eff == save(Prefix, memory, credential)
        id == credential.credentialId.s
    IN /\ memory' = eff.mem
       /\ op' = Call("save", id, credential,
                     get(Prefix, memory, id).t = "ok", Null, eff.writes, Void)
       /\ UNCHANGED lastSession

GetOp(credentialId) ==
    /\ op' = Call("get", credentialId, EmptyObj, FALSE, Null, <<>>,
                  Returned(get(Prefix, memory, credentialId)))
    /\ UNCHANGED <<memory, lastSession>>

GetByContractOp(contractId) ==
    /\ op' = Call("getByContract", contractId, EmptyObj, FALSE, Null, <<>>,
                  ReturnedList(getByContract(Prefix, memory, Str(contractId))))
    /\ UNCHANGED <<memory, lastSession>>

GetAll ==
    /\ op' = Call("getAll", "", EmptyObj, FALSE, Null, <<>>,
                  ReturnedList(getAll(Prefix, memory)))
    /\ UNCHANGED <<memory, lastSession>>

DeleteOp(credentialId) ==
    LET eff == delete(Prefix, memory, credentialId)
    IN /\ memory' = eff.mem
       /\ op' = Call("delete", credentialId, EmptyObj,
                     get(Prefix, memory, credentialId).t = "ok", Null, eff.writes, Void)
       /\ UNCHANGED lastSession

UpdateOp(credentialId, updates) ==
    LET eff == update(Prefix, memory, credentialId, updates)
        before == get(Prefix, memory, credentialId)
    IN /\ memory' = eff.mem
       /\ op' = Call("update", credentialId, updates, before.t = "ok", before,
                     eff.writes, Void)
       /\ UNCHANGED lastSession

Clear ==
    LET eff == clear(Prefix, memory)
    IN /\ memory' = eff.mem
       /\ op' = Call("clear", "", EmptyObj, getSession(Prefix, memory).t # "null",
                     Null, eff.writes, Void)
       /\ lastSession' = SessionCall("cleared", EmptyObj)

SaveSessionOp(session) ==
    LET eff == saveSession(Prefix, memory, session)
    IN /\ memory' = eff.mem
       /\ op' = Call("saveSession", "", session, FALSE, getSession(Prefix, memory),
                     eff.writes, Void)
       /\ lastSession' = SessionCall("saveSession", session)

GetSession ==
    /\ op' = Call("getSession", "", EmptyObj, FALSE, Null, <<>>,
                  Returned(getSession(Prefix, memory)))
    /\ UNCHANGED <<memory, lastSession>>

ClearSession ==
    LET eff == clearSession(Prefix, memory)
    IN /\ memory' = eff.mem
       /\ op' = Call("clearSession", "", EmptyObj, FALSE, Null, eff.writes, Void)
       /\ lastSession' = SessionCall("cleared", EmptyObj)

Save == \E credential \in Credentials : SaveOp(credential)
Get == \E credentialId \in Ids : GetOp(credentialId)
GetByContract == \E contractId \in ContractIds : GetByContractOp(contractId)
Delete == \E credentialId \in Ids : DeleteOp(credentialId)
Update == \E credentialId \in Ids, updates \in Updates : UpdateOp(credentialId, updates)
SaveSession == \E session \in Sessions : SaveSessionOp(session)

\* the session the storage test saves before clear()
SavedSession ==
    [contractId |-> Str("C1"), credentialId |-> Str("cred-1"), connectedAt |-> Num(1)]

SaveOneSession == SaveSessionOp(SavedSession)

\* One adapter used sequentially: every call runs to completion before the next.
\* The credential calls with all their inputs, next to one session.
Next ==
    \/ Save
    \/ Get
    \/ GetByContract
    \/ GetAll
    \/ Delete
    \/ Update
    \/ Clear
    \/ SaveOneSession

Spec == Init /\ [][Next]_vars

\* ------------------------------------------------------------------------
\* The store with damaged entries: besides the adapter's calls, anything that
\* shares the Preferences store may set a credential key or the index key
\* ------------------------------------------------------------------------
FewCredentials ==
    {makeCredential(id, KeyOfLength(MaxKeyLen), k) : id \in Ids, k \in ContractIds}

StoredRecord(credentialId, publicKey) ==
    StringOf("json-object",
             [credentialId |-> Str(credentialId), contractId |-> Str("C1"),
              publicKey |-> publicKey],
             <<>>)

\* values a credential key may be found to hold: not JSON, empty, the JSON null,
\* an object without publicKey, a publicKey with a character outside base64, a
\* publicKey of impossible length, and a readable "VQ ==" (byte 85)
DamagedCredentials(credentialId) ==
    {NotJson, EmptyString, JsonNull,
     StringOf("json-object", [credentialId |-> Str(credentialId)], <<>>),
     StoredRecord(credentialId, Txt(<<21, BadChar, 21, 16>>)),
     StoredRecord(credentialId, Txt(<<21>>)),
     StoredRecord(credentialId, Txt(<<21, 16, Space, Pad, Pad>>))}

\* values the index key may be found to hold: not JSON, a JSON object, and
\* any list of up to two ids (repeated or dangling entries included)
DamagedIndexes ==
    {NotJson, JSONstringifyObject(EmptyObj)}
        \cup {JSONstringifyArray(index) : index \in UNION {[1..n -> Ids] : n \in 0..2}}

ExternalWrite(key, value) ==
    /\ memory' = PrefSet(memory, key, value)
    /\ op' = Call("external-write", key, EmptyObj, FALSE, Null, <<>>, Void)
    /\ UNCHANGED lastSession

SaveFew == \E credential \in FewCredentials : SaveOp(credential)

DamageCredential ==
    \E credentialId \in Ids :
        \E value \in DamagedCredentials(credentialId) :
            ExternalWrite(credentialKey(Prefix, credentialId), value)

DamageIndex == \E value \in DamagedIndexes : ExternalWrite(indexKey(Prefix), value)

NextDamaged ==
    \/ SaveFew
    \/ Get
    \/ GetByContract
    \/ GetAll
    \/ Delete
    \/ DamageCredential
    \/ DamageIndex

SpecDamaged == Init /\ [][NextDamaged]_vars

\* ------------------------------------------------------------------------
\* The session slot: the session calls with all their inputs, next to a few
\* credentials, one adapter used sequentially
\* ------------------------------------------------------------------------
NextSession ==
    \/ SaveSession
    \/ GetSession
    \/ ClearSession
    \/ Clear
    \/ SaveFew
    \/ Delete

SpecSession == Init /\ [][NextSession]_vars

\* ------------------------------------------------------------------------
\* Properties of the store used sequentially (Spec)
\* ------------------------------------------------------------------------

\* C1: after save(c) completes, get(c.credentialId) returns a record (not null)
\* whose credentialId is c.credentialId and whose publicKey bytes are c.publicKey
C1_SaveThenGetRoundTrips ==
    op.name = "save" =>
        LET found == get(Prefix, memory, op.id)
        IN /\ found.t = "ok"
           /\ Field(found.obj, "credentialId") = op.arg.credentialId
           /\ Field(found.obj, "publicKey") = op.arg.publicKey

\* a save of a key whose base64 text ends in padding has completed
C1_Witness ==
    /\ op.name = "save"
    /\ Len(op.arg.publicKey.b) % 3 # 0

\* C2: once clear() has completed, getAll() is empty and getSession() is null
C2_ClearEmptiesStore ==
    op.name = "clear" =>
        /\ getAll(Prefix, memory) = [t |-> "ok", list |-> <<>>]
        /\ getSession(Prefix, memory) = Null

\* a clear has completed on a store that held two credentials and a session
C2_Witness ==
    /\ op.name = "clear"
    /\ op.existed
    /\ Len(op.writes) = 4

\* C3: an update of an id with no stored record makes no Preferences call,
\* leaves every key of the store as it was, and get(id) is still null
C3_UpdateOfMissingIsNoOp ==
    [][(op'.name = "update" /\ ~op'.existed) =>
          /\ op'.writes = <<>>
          /\ memory' = memory
          /\ get(Prefix, memory', op'.id) = Null]_vars

\* an update of an id with no record has completed while another record is stored
C3_Witness ==
    /\ op.name = "update"
    /\ ~op.existed
    /\ op.arg # EmptyObj
    /\ getCredentialIndex(Prefix, memory) # <<>>

MutableFields == {"contractId", "createdAt", "nickname"}

\* C4: after update(id, fields) of a stored record, every field named in the
\* payload other than credentialId and publicKey has the payload's value, every
\* other field is as it was stored, and credentialId and publicKey are as stored
C4_UpdateSetsExactlyThePayload ==
    (op.name = "update" /\ op.existed) =>
        LET found == get(Prefix, memory, op.id)
        IN /\ found.t = "ok"
           /\ DOMAIN found.obj \subseteq MutableFields \cup {"credentialId", "publicKey"}
           /\ Field(found.obj, "credentialId") = Field(op.before.obj, "credentialId")
           /\ Field(found.obj, "publicKey") = Field(op.before.obj, "publicKey")
           /\ \A f \in MutableFields :
                 Field(found.obj, f) =
                     IF f \in DOMAIN op.arg THEN op.arg[f] ELSE Field(op.before.obj, f)

\* an update whose payload names credentialId and publicKey has completed on a
\* stored record
C4_Witness ==
    /\ op.name = "update"
    /\ op.existed
    /\ "publicKey" \in DOMAIN op.arg
    /\ "credentialId" \in DOMAIN op.arg

\* a step keeps id's credentialId and publicKey: the string under id's key is
\* untouched, or the records read before and after (when there are both) agree
\* on the two fields
KeyKept(id) ==
    LET key == credentialKey(Prefix, id)
        before == get(Prefix, memory, id)
        after == get(Prefix, memory', id)
    IN \/ PrefGet(memory', key) = PrefGet(memory, key)
       \/ (before.t = "ok" /\ after.t = "ok") =>
              /\ Field(after.obj, "publicKey") = Field(before.obj, "publicKey")
              /\ Field(after.obj, "credentialId") = Field(before.obj, "credentialId")

\* C5 as claimed: while a record exists for an id, no operation changes its
\* credentialId or publicKey (it stays the one first saved)
C5_KeyNeverChanges == [][\A id \in Ids : KeyKept(id)]_vars

\* C5 as amended: the credentialId and publicKey of an existing record change
\* only by a save of that same credentialId; update and every other operation
\* leave them as stored
C5_KeyChangesOnlyBySave ==
    [][\A id \in Ids : KeyKept(id) \/ (op'.name = "save" /\ op'.id = id)]_vars

\* an update whose payload carries a publicKey has completed on a stored record
C5_Witness ==
    /\ op.name = "update"
    /\ op.existed
    /\ "publicKey" \in DOMAIN op.arg
    /\ Field(get(Prefix, memory, op.id).obj, "publicKey") # op.arg.publicKey

\* C6: no credentialId occurs twice in the persisted index list
C6_IndexHasNoDuplicates ==
    LET index == getCredentialIndex(Prefix, memory)
    IN \A i, j \in 1..Len(index) : index[i] = index[j] => i = j

\* a save of an already indexed credentialId has completed, two ids indexed
C6_Witness ==
    /\ op.name = "save"
    /\ op.existed
    /\ Len(getCredentialIndex(Prefix, memory)) = 2
    /\ getCredentialIndex(Prefix, memory)[2] = op.id

\* the credential records and the session, as the adapter reads them
SameRecords(mem1, mem2, ids) ==
    /\ \A id \in ids : get(Prefix, mem1, id) = get(Prefix, mem2, id)
    /\ getSession(Prefix, mem1) = getSession(Prefix, mem2)

Defined(session) ==
    [f \in {g \in DOMAIN session : session[g] # Undef} |-> session[f]]

\* C9: getSession() returns exactly the session of the most recent saveSession,
\* nothing inherited from an earlier one, and null when no session was saved
\* since the last clearSession or clear
C9_SessionIsSingleSlot ==
    getSession(Prefix, memory) =
        IF lastSession.name = "saveSession"
        THEN [t |-> "object", obj |-> Defined(lastSession.session)]
        ELSE Null

\* a session without expiresAt was saved over one that had an expiresAt
C9_Witness ==
    /\ op.name = "saveSession"
    /\ "expiresAt" \in DOMAIN op.before.obj
    /\ "expiresAt" \notin DOMAIN op.arg

\* ------------------------------------------------------------------------
\* Properties of the store with damaged entries (SpecDamaged)
\* ------------------------------------------------------------------------

\* the string under id's key is the text of a JSON object whose publicKey is
\* base64 text
Readable(value) ==
    /\ value.kind = "json-object"
    /\ "publicKey" \in DOMAIN value.obj
    /\ value.obj.publicKey.t = "string"
    /\ atob(value.obj.publicKey.b).ok

StoredValue(credentialId) == PrefGet(memory, credentialKey(Prefix, credentialId))

\* the record a readable stored string stands for
RecordOf(value) ==
    [f \in DOMAIN value.obj |->
        IF f = "publicKey" THEN U8(atob(value.obj.publicKey.b).bytes)
        ELSE value.obj[f]]

\* positions of the index whose id has a readable value with contractId k
Matching(index, k) ==
    {j \in 1..Len(index) :
        /\ Readable(StoredValue(index[j]))
        /\ Field(StoredValue(index[j]).obj, "contractId") = Str(k)}

\* C8: getByContract(k) returns exactly the indexed, readable records whose
\* contractId is k: each of them, once per index entry, and nothing else
C8_GetByContractReturnsExactlyTheMatches ==
    op.name = "getByContract" =>
        LET index == getCredentialIndex(Prefix, memory)
            list == op.ret.list
        IN /\ op.ret.t = "ok"
           /\ Len(list) = Cardinality(Matching(index, op.id))
           /\ \A j \in Matching(index, op.id) :
                 \E i \in 1..Len(list) : list[i] = RecordOf(StoredValue(index[j]))
           /\ \A i \in 1..Len(list) :
                 \E j \in Matching(index, op.id) : list[i] = RecordOf(StoredValue(index[j]))

\* getByContract returned one record while a readable record of another
\* contract was indexed too
C8_Witness ==
    /\ op.name = "getByContract"
    /\ Len(op.ret.list) = 1
    /\ \E id \in Ids :
          /\ Readable(StoredValue(id))
          /\ includes(getCredentialIndex(Prefix, memory), id)
          /\ Field(StoredValue(id).obj, "contractId") # Str(op.id)

\* the readable records of the index, in index order
RECURSIVE ReadableRecords(_)
ReadableRecords(index) ==
    IF index = <<>> THEN <<>>
    ELSE IF Readable(StoredValue(Head(index)))
         THEN <<RecordOf(StoredValue(Head(index)))>> \o ReadableRecords(Tail(index))
         ELSE ReadableRecords(Tail(index))

\* C10: get(id) never throws and returns null when id's value is missing or
\* unreadable; getAll() never throws and returns the readable records of the
\* index, in order, skipping the missing and unreadable ones
C10_DamageIsASoftMiss ==
    /\ op.name = "get" =>
          /\ op.ret.t \in {"null", "ok"}
          /\ ~Readable(StoredValue(op.id)) => op.ret.t = "null"
          /\ Readable(StoredValue(op.id)) => op.ret.obj = RecordOf(StoredValue(op.id))
    /\ op.name = "getAll" =>
          /\ op.ret.t = "ok"
          /\ op.ret.list = ReadableRecords(getCredentialIndex(Prefix, memory))

\* getAll returned a record while another indexed id held an unreadable value
C10_Witness ==
    /\ op.name = "getAll"
    /\ Len(op.ret.list) = 1
    /\ \E id \in Ids :
          /\ includes(getCredentialIndex(Prefix, memory), id)
          /\ StoredValue(id).kind # "null"
          /\ ~Readable(StoredValue(id))

\* ------------------------------------------------------------------------
\* Several adapters over one store (SpecNamespaces): each adapter is
\* new CapacitorStorageAdapter(Preferences, prefix) with its own prefix
\* ------------------------------------------------------------------------
Namespaces == {"app", "app:credential"}
NamespaceIds == {"cred-1", "session"}

\* a call made on the adapter whose namespace is prefix
CallBy(prefix, name, id, arg, writes) ==
    [prefix |-> prefix, name |-> name, id |-> id, arg |-> arg, writes |-> writes]

SaveBy(prefix) ==
    \E credentialId \in NamespaceIds :
        LET credential == makeCredential(credentialId, KeyOfLength(1), "C1")
            eff == save(prefix, memory, credential)
        IN /\ memory' = eff.mem
           /\ op' = CallBy(prefix, "save", credential.credentialId.s,
                           credential, eff.writes)
           /\ UNCHANGED lastSession

UpdateBy(prefix) ==
    \E credentialId \in NamespaceIds :
        LET updates == [nickname |-> Str("renamed")]
            eff == update(prefix, memory, credentialId, updates)
        IN /\ memory' = eff.mem
           /\ op' = CallBy(prefix, "update", credentialId, updates, eff.writes)
           /\ UNCHANGED lastSession

DeleteBy(prefix) ==
    \E credentialId \in NamespaceIds :
        LET eff == delete(prefix, memory, credentialId)
        IN /\ memory' = eff.mem
           /\ op' = CallBy(prefix, "delete", credentialId, EmptyObj, eff.writes)
           /\ UNCHANGED lastSession

ClearBy(prefix) ==
    LET eff == clear(prefix, memory)
    IN /\ memory' = eff.mem
       /\ op' = CallBy(prefix, "clear", "", EmptyObj, eff.writes)
       /\ UNCHANGED lastSession

SaveSessionBy(prefix) ==
    LET eff == saveSession(prefix, memory, SavedSession)
    IN /\ memory' = eff.mem
       /\ op' = CallBy(prefix, "saveSession", "", SavedSession, eff.writes)
       /\ UNCHANGED lastSession

ClearSessionBy(prefix) ==
    LET eff == clearSession(prefix, memory)
    IN /\ memory' = eff.mem
       /\ op' = CallBy(prefix, "clearSession", "", EmptyObj, eff.writes)
       /\ UNCHANGED lastSession

InitNamespaces ==
    /\ memory = EmptyMemory
    /\ op = CallBy("", "none", "", EmptyObj, <<>>)
    /\ lastSession = SessionCall("cleared", EmptyObj)

NextNamespaces ==
    \E prefix \in Namespaces :
        \/ SaveBy(prefix)
        \/ UpdateBy(prefix)
        \/ DeleteBy(prefix)
        \/ ClearBy(prefix)
        \/ SaveSessionBy(prefix)
        \/ ClearSessionBy(prefix)

SpecNamespaces == InitNamespaces /\ [][NextNamespaces]_vars

\* ------------------------------------------------------------------------
\* Properties of adapters sharing a store (SpecNamespaces)
\* ------------------------------------------------------------------------

\* what the adapter with namespace prefix reads from the store mem
ViewOf(prefix, mem) ==
    [gets |-> [credentialId \in NamespaceIds |-> get(prefix, mem, credentialId)],
     all |-> getAll(prefix, mem),
     session |-> getSession(prefix, mem)]

\* C11: a call on one adapter (save, update, delete, clear, saveSession,
\* clearSession, with any credentialId) leaves what get, getAll and getSession
\* return on every adapter with another namespace unchanged
C11_NamespacesAreIsolated ==
    [][\A other \in Namespaces \ {op'.prefix} :
          ViewOf(other, memory') = ViewOf(other, memory)]_vars

\* ------------------------------------------------------------------------
\* base64url (fromBase64Url / toBase64Url of adapter.ts, on the runtime's
\* atob / btoa).  Character codes 67 and 68 are '-' and '_'; 62 and 63 are
\* '+' and '/'.
\* ------------------------------------------------------------------------
Minus == 67
Underscore == 68

fromBase64Url(input) ==
    LET replaced == [i \in 1..Len(input.b) |->
                        IF input.b[i] = Minus THEN 62
                        ELSE IF input.b[i] = Underscore THEN 63
                        ELSE input.b[i]]
        targetLength == ((Len(input.b) + 3) \div 4) * 4
        base64 == replaced \o [i \in 1..(targetLength - Len(replaced)) |-> Pad]
        binary == atob(base64)
    IN [ok |-> binary.ok, value |-> U8(binary.bytes)]

\* toBase64Url that leaves the '=' padding in place
toBase64UrlPadded(input) ==
    LET base64 == btoa(input.b)
    IN Txt([i \in 1..Len(base64) |->
               IF base64[i] = 62 THEN Minus
               ELSE IF base64[i] = 63 THEN Underscore
               ELSE base64[i]])

toBase64Url(input) ==
    LET base64 == btoa(input.b)
        urlSafe == [i \in 1..Len(base64) |->
                       IF base64[i] = 62 THEN Minus
                       ELSE IF base64[i] = 63 THEN Underscore
                       ELSE base64[i]]
        kept == {n \in 0..Len(urlSafe) :
                    /\ \A i \in (n + 1)..Len(urlSafe) : urlSafe[i] = Pad
                    /\ n > 0 => urlSafe[n] # Pad}
    IN Txt(SubSeq(urlSafe, 1, CHOOSE n \in kept : TRUE))

\* ------------------------------------------------------------------------
\* Public-key recovery (extractPublicKeyFromRegistrationResponse)
\* ------------------------------------------------------------------------
\* if (value): undefined, null, the empty string and 0 are falsy
Truthy(value) ==
    /\ value.t \notin {"undefined", "null"}
    /\ ~(value.t = "string" /\ value.s = "" /\ value.b = <<>>)
    /\ ~(value.t = "number" /\ value.n = 0)

\* a ?? that takes the other side for undefined only
NullishUndefinedOnly(value) == value.t = "undefined"

\* value ?? other takes other for undefined and null only
Nullish(value) == value.t \in {"undefined", "null"}

\* bytes.slice(start, end), indexes counted from 0
Slice(bytes, start, end) == SubSeq(bytes, start + 1, end)

\* what a step of the adapter yields: a value, or a thrown error object
Value(value) == [t |-> "ok", value |-> value, error |-> EmptyObj]
Raised(error) == [t |-> "throw", value |-> Undef, error |-> error]

\* the DOMException atob throws on text that is not base64
InvalidCharacterError ==
    [name |-> Str("InvalidCharacterError"), code |-> Num(5),
     message |-> Str("The string to be decoded is not correctly encoded.")]

\* the TypeError of reading a property of undefined
PropertyOfUndefined ==
    [name |-> Str("TypeError"),
     message |-> Str("Cannot read properties of undefined")]

cosePrefix == <<165, 1, 2, 3, 38, 32, 1, 33, 88, 32>>

\* the authenticatorData branch with X read at the credential id (offset 55)
FromAuthenticatorDataAtCredentialId(authenticatorData) ==
    IF Len(authenticatorData) < 55 THEN Undef
    ELSE LET credentialIdLength ==
                 authenticatorData[54] * 256 + authenticatorData[55]
             xStart == 55
             yStart == 55 + credentialIdLength + 45
         IN IF Len(authenticatorData) < yStart + 32 THEN Undef
            ELSE toBase64Url(U8(<<4>>
                     \o Slice(authenticatorData, xStart, xStart + 32)
                     \o Slice(authenticatorData, yStart, yStart + 32)))

\* the branch taken when response.authenticatorData is set, after decoding
FromAuthenticatorData(authenticatorData) ==
    IF Len(authenticatorData) < 55 THEN Undef
    ELSE LET credentialIdLength ==
                 authenticatorData[54] * 256 + authenticatorData[55]
             xStart == 55 + credentialIdLength + 10
             yStart == 55 + credentialIdLength + 45
         IN IF Len(authenticatorData) < yStart + 32 THEN Undef
            ELSE toBase64Url(U8(<<4>>
                     \o Slice(authenticatorData, xStart, xStart + 32)
                     \o Slice(authenticatorData, yStart, yStart + 32)))

\* the positions (from 0) at which cosePrefix occurs in bytes
PrefixMatches(bytes) ==
    {i \in 0..(Len(bytes) - Len(cosePrefix)) :
        \A j \in 1..Len(cosePrefix) : bytes[i + j] = cosePrefix[j]}

\* the attestationObject branch scanning backwards: the last occurrence wins
FromAttestationObjectLastMatch(attestationObject) ==
    LET matches == PrefixMatches(attestationObject)
        startIndex ==
            IF matches = {} THEN -1
            ELSE (CHOOSE i \in matches : \A k \in matches : i >= k)
                     + Len(cosePrefix)
    IN IF startIndex < 0 \/ startIndex + 67 > Len(attestationObject) THEN Undef
       ELSE toBase64Url(U8(<<4>>
                \o Slice(attestationObject, startIndex, startIndex + 32)
                \o Slice(attestationObject, startIndex + 35, startIndex + 67)))

\* the branch taken when only response.attestationObject is set, after decoding
FromAttestationObject(attestationObject) ==
    LET matches == PrefixMatches(attestationObject)
        startIndex ==
            IF matches = {} THEN -1
            ELSE (CHOOSE i \in matches : \A k \in matches : i <= k)
                     + Len(cosePrefix)
    IN IF startIndex < 0 \/ startIndex + 67 > Len(attestationObject) THEN Undef
       ELSE toBase64Url(U8(<<4>>
                \o Slice(attestationObject, startIndex, startIndex + 32)
                \o Slice(attestationObject, startIndex + 35, startIndex + 67)))

extractPublicKeyFromRegistrationResponse(response) ==
    LET publicKey == Field(response, "publicKey")
        authenticatorData == Field(response, "authenticatorData")
        attestationObject == Field(response, "attestationObject")
    IN IF Truthy(publicKey) THEN Value(publicKey)
       ELSE IF Truthy(authenticatorData) THEN
           LET decoded == fromBase64Url(authenticatorData)
           IN IF ~decoded.ok THEN Raised(InvalidCharacterError)
              ELSE Value(FromAuthenticatorData(decoded.value.b))
       ELSE IF Truthy(attestationObject) THEN
           LET decoded == fromBase64Url(attestationObject)
           IN IF ~decoded.ok THEN Raised(InvalidCharacterError)
              ELSE Value(FromAttestationObject(decoded.value.b))
       ELSE Value(Undef)

\* ------------------------------------------------------------------------
\* Normalizers (adapter.ts).  A plugin result is [obj, response]: obj its
\* own fields, response its response sub-record or that it has none.
\* An array or object value is opaque: s names its content, n its length.
\* ------------------------------------------------------------------------
Obj(s) == [t |-> "object", s |-> s, n |-> 0, b |-> <<>>]
NullValue == [t |-> "null", s |-> "", n |-> 0, b |-> <<>>]

NoResponse == [t |-> "undefined", obj |-> EmptyObj]

normalizeAttachment(value) ==
    IF value = Str("platform") \/ value = Str("cross-platform") THEN value
    ELSE Undef

normalizeTransports(value) ==
    IF ~Truthy(value) \/ value.n = 0 THEN Undef ELSE value

\* normalizeUserHandle that knows the text 'null' only
normalizeUserHandleNullTextOnly(value) ==
    IF ~Truthy(value) \/ value = Str("null") THEN Undef ELSE value

normalizeUserHandle(value) ==
    IF ~Truthy(value) \/ value = Str("null") \/ value = Str("undefined")
    THEN Undef
    ELSE value

\* what a normalizer or an adapter call yields: the canonical result, or a throw
Canonical(obj, response) ==
    [t |-> "ok", obj |-> obj, response |-> response]
Thrown(error) == [t |-> "throw", obj |-> error, response |-> EmptyObj]

normalizeRegistrationResponse(result) ==
    IF result.response.t # "ok" THEN Thrown(PropertyOfUndefined)
    ELSE
      LET response == result.response.obj
          fallbackPublicKey == extractPublicKeyFromRegistrationResponse(response)
          clientExtensionResults == Field(result.obj, "clientExtensionResults")
          publicKey == Field(response, "publicKey")
      IN IF fallbackPublicKey.t = "throw" THEN Thrown(fallbackPublicKey.error)
         ELSE Canonical(
           [id |-> Field(result.obj, "id"),
            rawId |-> Field(result.obj, "rawId"),
            type |-> Str("public-key"),
            authenticatorAttachment |->
                normalizeAttachment(Field(result.obj, "authenticatorAttachment")),
            clientExtensionResults |->
                IF Nullish(clientExtensionResults) THEN Obj("{}")
                ELSE clientExtensionResults],
           [attestationObject |-> Field(response, "attestationObject"),
            clientDataJSON |-> Field(response, "clientDataJSON"),
            authenticatorData |-> Field(response, "authenticatorData"),
            transports |-> normalizeTransports(Field(response, "transports")),
            publicKey |->
                IF Nullish(publicKey) THEN fallbackPublicKey.value
                ELSE publicKey,
            publicKeyAlgorithm |-> Field(response, "publicKeyAlgorithm")])

\* normalizeAuthenticationResponse that copies the type of the plugin result
normalizeAuthenticationResponseKeepsType(result) ==
    IF result.response.t # "ok" THEN Thrown(PropertyOfUndefined)
    ELSE
      LET response == result.response.obj
          clientExtensionResults == Field(result.obj, "clientExtensionResults")
      IN Canonical(
           [id |-> Field(result.obj, "id"),
            rawId |-> Field(result.obj, "rawId"),
            type |-> Field(result.obj, "type"),
            authenticatorAttachment |->
                normalizeAttachment(Field(result.obj, "authenticatorAttachment")),
            clientExtensionResults |->
                IF Nullish(clientExtensionResults) THEN Obj("{}")
                ELSE clientExtensionResults],
           [clientDataJSON |-> Field(response, "clientDataJSON"),
            authenticatorData |-> Field(response, "authenticatorData"),
            signature |-> Field(response, "signature"),
            userHandle |-> normalizeUserHandle(Field(response, "userHandle"))])

normalizeAuthenticationResponse(result) ==
    IF result.response.t # "ok" THEN Thrown(PropertyOfUndefined)
    ELSE
      LET response == result.response.obj
          clientExtensionResults == Field(result.obj, "clientExtensionResults")
      IN Canonical(
           [id |-> Field(result.obj, "id"),
            rawId |-> Field(result.obj, "rawId"),
            type |-> Str("public-key"),
            authenticatorAttachment |->
                normalizeAttachment(Field(result.obj, "authenticatorAttachment")),
            clientExtensionResults |->
                IF Nullish(clientExtensionResults) THEN Obj("{}")
                ELSE clientExtensionResults],
           [clientDataJSON |-> Field(response, "clientDataJSON"),
            authenticatorData |-> Field(response, "authenticatorData"),
            signature |-> Field(response, "signature"),
            userHandle |-> normalizeUserHandle(Field(response, "userHandle"))])

\* ------------------------------------------------------------------------
\* Error mapping (mapPluginError of src/errors.ts).  The file is not among
\* the sources; the mapping follows the documented table, the message-aware
\* DOM_ERROR row and the cases of tests/errors.test.ts.
\* ------------------------------------------------------------------------
PluginErrorCodes ==
    {"UNKNOWN_ERROR", "CANCELLED", "DOM_ERROR", "UNSUPPORTED_ERROR", "TIMEOUT",
     "NO_CREDENTIAL", "INVALID_INPUT", "RPID_VALIDATION_ERROR",
     "PROVIDER_CONFIG_ERROR", "INTERRUPTED", "NO_ACTIVITY"}

\* the table with TIMEOUT mapped like a cancellation
MappedErrorNameTimeoutAsCancel(code) ==
    CASE code = "UNKNOWN_ERROR" -> "UnknownError"
      [] code \in {"CANCELLED", "NO_CREDENTIAL", "DOM_ERROR", "TIMEOUT"} ->
             "NotAllowedError"
      [] code = "UNSUPPORTED_ERROR" -> "NotSupportedError"
      [] code = "INTERRUPTED" -> "AbortError"
      [] code = "INVALID_INPUT" -> "TypeError"
      [] code = "RPID_VALIDATION_ERROR" -> "SecurityError"
      [] code \in {"PROVIDER_CONFIG_ERROR", "NO_ACTIVITY"} -> "InvalidStateError"

\* the name of each code; for DOM_ERROR the name used when the message says nothing
MappedErrorName(code) ==
    CASE code = "UNKNOWN_ERROR" -> "UnknownError"
      [] code \in {"CANCELLED", "NO_CREDENTIAL", "DOM_ERROR"} -> "NotAllowedError"
      [] code = "UNSUPPORTED_ERROR" -> "NotSupportedError"
      [] code \in {"TIMEOUT", "INTERRUPTED"} -> "AbortError"
      [] code = "INVALID_INPUT" -> "TypeError"
      [] code = "RPID_VALIDATION_ERROR" -> "SecurityError"
      [] code \in {"PROVIDER_CONFIG_ERROR", "NO_ACTIVITY"} -> "InvalidStateError"

\* the parts a plugin message is made of: text before and after its subject
MessageFragments == {"", "Passkey: ", " from provider"}

\* message.includes(part), for a message made of the fragments
StringIncludes(message, part) ==
    \E before \in MessageFragments, after \in MessageFragments :
        message = before \o part \o after

\* DOM error names looked for in the message of a DOM_ERROR
DomErrorNames == {"SecurityError", "InvalidStateError"}

\* the DOM_ERROR row that ignores the message
InferDomErrorNameIgnoresMessage(message) == MappedErrorName("DOM_ERROR")

InferDomErrorName(message) ==
    IF \E name \in DomErrorNames : StringIncludes(message, name)
    THEN CHOOSE name \in DomErrorNames : StringIncludes(message, name)
    ELSE MappedErrorName("DOM_ERROR")

\* mapPluginError that keeps whatever code it was given
mapPluginErrorKeepsCode(error) ==
    LET code == Field(error, "code")
        message == Field(error, "message")
        known == code.t = "string" /\ code.s \in PluginErrorCodes
    IN [name |-> Str(IF ~known THEN "UnknownError"
                     ELSE IF code.s = "DOM_ERROR" THEN InferDomErrorName(message.s)
                     ELSE MappedErrorName(code.s)),
        pluginErrorCode |-> code,
        message |-> message]

mapPluginError(error) ==
    LET code == Field(error, "code")
        message == Field(error, "message")
        known == code.t = "string" /\ code.s \in PluginErrorCodes
    IN [name |-> Str(IF ~known THEN "UnknownError"
                     ELSE IF code.s = "DOM_ERROR" THEN InferDomErrorName(message.s)
                     ELSE MappedErrorName(code.s)),
        pluginErrorCode |-> IF known THEN code ELSE Str("UNKNOWN_ERROR"),
        message |-> message]

\* ------------------------------------------------------------------------
\* asSimpleWebAuthn(plugin): the plugin call either resolves with a result
\* or rejects with an error
\* ------------------------------------------------------------------------
Resolved(obj, response) == [t |-> "resolve", obj |-> obj, response |-> response]
Rejected(error) == [t |-> "reject", obj |-> error, response |-> NoResponse]

\* startRegistration without the catch: the plugin's error leaves unmapped
startRegistrationUnmapped(outcome) ==
    IF outcome.t = "reject" THEN Thrown(outcome.obj)
    ELSE normalizeRegistrationResponse(outcome)

startRegistration(outcome) ==
    IF outcome.t = "reject" THEN Thrown(mapPluginError(outcome.obj))
    ELSE LET normalized == normalizeRegistrationResponse(outcome)
         IN IF normalized.t = "throw" THEN Thrown(mapPluginError(normalized.obj))
            ELSE normalized

startAuthentication(outcome) ==
    IF outcome.t = "reject" THEN Thrown(mapPluginError(outcome.obj))
    ELSE LET normalized == normalizeAuthenticationResponse(outcome)
         IN IF normalized.t = "throw" THEN Thrown(mapPluginError(normalized.obj))
            ELSE normalized

\* ------------------------------------------------------------------------
\* Inputs of the adapter: plugin errors, encoded buffers, plugin results
\* ------------------------------------------------------------------------
\* { code, message } with a defined or an unheard-of code, and errors without
\* a code; the message names a DOM error or not, with text around it
PluginErrors ==
    LET Messages ==
            {before \o subject \o after :
                before \in MessageFragments, after \in MessageFragments,
                subject \in DomErrorNames \cup {"User cancelled", "Unknown failure"}}
    IN {[code |-> Str(code), message |-> Str(message)] :
            code \in PluginErrorCodes \cup {"WHATEVER", "E_FAIL"},
            message \in Messages}
       \cup {[message |-> Str(message)] : message \in Messages}

\* length bytes that differ from place to place and hold no cosePrefix
Filler(length) == [i \in 1..length |-> (i * 7) % 256]

\* authenticator data of the given length whose bytes 53 and 54 hold the
\* credential id length
AuthenticatorDataOf(credentialIdLength, length) ==
    [i \in 1..length |->
        IF i = 54 THEN credentialIdLength \div 256
        ELSE IF i = 55 THEN credentialIdLength % 256
        ELSE (i * 7) % 256]

\* among them texts that atob rejects: one character, and a character
\* outside the alphabet
AuthenticatorDatas ==
    {Undef, Str(""), Txt(<<0>>), Txt(<<0, BadChar, 0, 0>>)}
    \cup {toBase64Url(U8(AuthenticatorDataOf(shape[1], shape[2]))) :
            shape \in {<<0, 54>>, <<0, 55>>, <<0, 131>>, <<0, 132>>,
                       <<2, 133>>, <<2, 134>>, <<2, 160>>,
                       <<256, 387>>, <<256, 388>>}}

AttestationObjects ==
    {Undef, Txt(<<0>>), Txt(<<0, BadChar, 0, 0>>)}
    \cup {toBase64Url(U8(bytes)) : bytes \in
            {Filler(80),
             cosePrefix,
             cosePrefix \o Filler(66),
             cosePrefix \o Filler(67),
             Filler(5) \o cosePrefix \o Filler(70),
             SubSeq(cosePrefix, 1, 4) \o cosePrefix \o Filler(67),
             Filler(3) \o cosePrefix \o Filler(20) \o cosePrefix \o Filler(67)}}

RecoveryResponses ==
    {[publicKey |-> publicKey, authenticatorData |-> authenticatorData,
      attestationObject |-> attestationObject,
      clientDataJSON |-> Str("client-data")] :
        publicKey \in {Undef, Str(""), toBase64Url(U8(<<4>> \o Filler(64)))},
        authenticatorData \in AuthenticatorDatas,
        attestationObject \in AttestationObjects}

\* ------------------------------------------------------------------------
\* The adapter's functions applied to the inputs (SpecErrors, SpecRecovery)
\* ------------------------------------------------------------------------
AdapterCall(name, arg, ret) == [name |-> name, arg |-> arg, ret |-> ret]

InitAdapter ==
    /\ memory = EmptyMemory
    /\ op = AdapterCall("none", EmptyObj, Value(Undef))
    /\ lastSession = SessionCall("cleared", EmptyObj)

MapPluginError ==
    \E error \in PluginErrors :
        /\ op' = AdapterCall("mapPluginError", error, mapPluginError(error))
        /\ UNCHANGED <<memory, lastSession>>

SpecErrors == InitAdapter /\ [][MapPluginError]_vars

ExtractPublicKey ==
    \E response \in RecoveryResponses :
        /\ op' = AdapterCall("extractPublicKeyFromRegistrationResponse", response,
                             extractPublicKeyFromRegistrationResponse(response))
        /\ UNCHANGED <<memory, lastSession>>

SpecRecovery == InitAdapter /\ [][ExtractPublicKey]_vars

\* ------------------------------------------------------------------------
\* asSimpleWebAuthn(plugin) called with a plugin whose call resolves or
\* rejects (SpecAdapter)
\* ------------------------------------------------------------------------
\* the plugin result's own fields; id and rawId may be missing
\* the other fields vary one at a time around the result of the tests
RawResults ==
    LET result == [id |-> Str("cred-id"), rawId |-> Str("cred-id"),
                   type |-> Str("public-key"), authenticatorAttachment |-> Undef,
                   clientExtensionResults |-> Undef]
    IN {[result EXCEPT !.id = id, !.rawId = rawId,
                       !.authenticatorAttachment = authenticatorAttachment] :
            id \in {Str("cred-id"), Undef},
            rawId \in {Str("cred-id"), Undef},
            authenticatorAttachment \in {Undef, Str("platform")}}
       \cup {[result EXCEPT !.type = type] :
                type \in {Undef, Str(""), Str("webauthn.get")}}
       \cup {[result EXCEPT !.clientExtensionResults = clientExtensionResults] :
                clientExtensionResults \in {NullValue, Obj("{credProps}")}}
       \cup {[result EXCEPT !.authenticatorAttachment = authenticatorAttachment] :
                authenticatorAttachment \in
                    {Str("cross-platform"), Str(""), Str("usb"), NullValue}}

CreatePasskeyOutcomes ==
  LET RegistrationResponses ==
    {[attestationObject |-> attestationObject,
      authenticatorData |-> authenticatorData,
      clientDataJSON |-> Str("client-data")] :
        authenticatorData \in
            {Undef, Txt(<<0>>),
             toBase64Url(U8(AuthenticatorDataOf(0, 54))),
             toBase64Url(U8(AuthenticatorDataOf(0, 132)))},
        attestationObject \in
            {Undef, Txt(<<0, BadChar, 0, 0>>),
             toBase64Url(U8(cosePrefix \o Filler(67)))}}
  IN
    {Resolved(obj, response) :
        obj \in RawResults,
        response \in {Ok(r) : r \in RegistrationResponses} \cup {NoResponse}}
    \cup {Rejected(error) : error \in
            {e \in PluginErrors :
                e.message.s \in {"User cancelled", "SecurityError from provider"}}}

AuthenticateOutcomes ==
  LET AuthenticationResponses ==
    {[clientDataJSON |-> Str("client-data"), authenticatorData |-> Str("auth-data"),
      signature |-> Str("sig"), userHandle |-> userHandle] :
        userHandle \in {Undef, Str(""), Str("null"), Str("undefined"),
                        Str("user-1")}}
  IN
    {Resolved(obj, response) :
        obj \in RawResults,
        response \in {Ok(r) : r \in AuthenticationResponses} \cup {NoResponse}}
    \cup {Rejected(error) : error \in
            {e \in PluginErrors :
                e.message.s \in {"User cancelled", "SecurityError from provider"}}}

StartRegistration ==
    \E outcome \in CreatePasskeyOutcomes :
        /\ op' = AdapterCall("startRegistration", outcome,
                             startRegistration(outcome))
        /\ UNCHANGED <<memory, lastSession>>

StartAuthentication ==
    \E outcome \in AuthenticateOutcomes :
        /\ op' = AdapterCall("startAuthentication", outcome,
                             startAuthentication(outcome))
        /\ UNCHANGED <<memory, lastSession>>

NextAdapter == StartRegistration \/ StartAuthentication

SpecAdapter == InitAdapter /\ [][NextAdapter]_vars

\* ------------------------------------------------------------------------
\* Properties of the adapter calls (SpecAdapter)
\* ------------------------------------------------------------------------

\* the names an error of the adapter can bear
CanonicalNames ==
    {MappedErrorName(code) : code \in PluginErrorCodes} \cup DomErrorNames

\* C12: when the plugin call of startRegistration or startAuthentication
\* rejects, the call throws what mapPluginError makes of the plugin's error
\* and never returns a result; every error either call throws has a
\* canonical name and a pluginErrorCode
C12_PluginFailuresAreMappedAndRethrown ==
    op.name \in {"startRegistration", "startAuthentication"} =>
        /\ op.arg.t = "reject" =>
               /\ op.ret.t = "throw"
               /\ op.ret.obj = mapPluginError(op.arg.obj)
        /\ op.ret.t = "throw" =>
               /\ Field(op.ret.obj, "name").s \in CanonicalNames
               /\ Field(op.ret.obj, "pluginErrorCode").s \in PluginErrorCodes

\* startAuthentication has thrown after the plugin rejected with INTERRUPTED
C12_Witness ==
    /\ op.name = "startAuthentication"
    /\ op.arg.t = "reject"
    /\ Field(op.arg.obj, "code") = Str("INTERRUPTED")
    /\ op.ret.t = "throw"

\* ------------------------------------------------------------------------
\* Properties of the error mapping (SpecErrors)
\* ------------------------------------------------------------------------

\* C13: for each of the ten codes other than DOM_ERROR the mapped error has
\* the table's name whatever the message says, its pluginErrorCode is the
\* input code and its message the input message
C13_TableIsTotalAndExact ==
    op.name = "mapPluginError" =>
        \A row \in {<<"UNKNOWN_ERROR", "UnknownError">>,
                    <<"CANCELLED", "NotAllowedError">>,
                    <<"UNSUPPORTED_ERROR", "NotSupportedError">>,
                    <<"TIMEOUT", "AbortError">>,
                    <<"NO_CREDENTIAL", "NotAllowedError">>,
                    <<"INVALID_INPUT", "TypeError">>,
                    <<"RPID_VALIDATION_ERROR", "SecurityError">>,
                    <<"PROVIDER_CONFIG_ERROR", "InvalidStateError">>,
                    <<"INTERRUPTED", "AbortError">>,
                    <<"NO_ACTIVITY", "InvalidStateError">>} :
            Field(op.arg, "code") = Str(row[1]) =>
                /\ op.ret.name = Str(row[2])
                /\ op.ret.pluginErrorCode = Str(row[1])
                /\ op.ret.message = Field(op.arg, "message")

\* a TIMEOUT whose message names another DOM error was mapped to AbortError
C13_Witness ==
    /\ op.name = "mapPluginError"
    /\ Field(op.arg, "code") = Str("TIMEOUT")
    /\ StringIncludes(Field(op.arg, "message").s, "SecurityError")
    /\ op.ret.name = Str("AbortError")

C15_DomErrorNameFollowsMessage ==
    (op.name = "mapPluginError" /\ Field(op.arg, "code") = Str("DOM_ERROR")) =>
        LET message == Field(op.arg, "message").s
        IN /\ \A name \in DomErrorNames :
                  StringIncludes(message, name) => op.ret.name = Str(name)
           /\ (\A name \in DomErrorNames : ~StringIncludes(message, name)) =>
                  op.ret.name = Str("NotAllowedError")
           /\ op.ret.pluginErrorCode = Str("DOM_ERROR")

\* the DOM_ERROR of the test, 'SecurityError from provider', was mapped
C15_Witness ==
    /\ op.name = "mapPluginError"
    /\ Field(op.arg, "code") = Str("DOM_ERROR")
    /\ Field(op.arg, "message") = Str("SecurityError from provider")
    /\ op.ret.name = Str("SecurityError")

\* ------------------------------------------------------------------------
\* Properties of the public-key recovery (SpecRecovery)
\* ------------------------------------------------------------------------

\* the bytes a field of the response decodes to; none when the field is not
\* set or is not base64url
DecodedField(response, field) ==
    IF Truthy(Field(response, field)) /\ fromBase64Url(Field(response, field)).ok
    THEN fromBase64Url(Field(response, field)).value.b
    ELSE <<>>

\* a field that is set decodes
Decodable(response, field) ==
    Truthy(Field(response, field)) => fromBase64Url(Field(response, field)).ok

\* 0x04, then 32 bytes from offset x, then 32 bytes from offset y (from 0)
PointAt(bytes, x, y) ==
    [k \in 1..65 |->
        IF k = 1 THEN 4
        ELSE IF k <= 33 THEN bytes[x + k - 1]
        ELSE bytes[y + k - 33]]

\* the key authenticatorData holds, Undef when it holds none
KeyOfAuthenticatorData(response) ==
    LET d == DecodedField(response, "authenticatorData")
        N == d[54] * 256 + d[55]
    IN IF Len(d) >= 55 /\ Len(d) >= 55 + N + 45 + 32
       THEN toBase64Url(U8(PointAt(d, 55 + N + 10, 55 + N + 45)))
       ELSE Undef

\* the offset (from 0) of the first cosePrefix in bytes, -1 when there is none
FirstPrefix(bytes) ==
    IF \E i \in 0..(Len(bytes) - 10) : SubSeq(bytes, i + 1, i + 10) = cosePrefix
    THEN CHOOSE i \in 0..(Len(bytes) - 10) :
             /\ SubSeq(bytes, i + 1, i + 10) = cosePrefix
             /\ \A k \in 0..(i - 1) : SubSeq(bytes, k + 1, k + 10) # cosePrefix
    ELSE -1

\* the key attestationObject holds, Undef when it holds none
KeyOfAttestationObject(response) ==
    LET a == DecodedField(response, "attestationObject")
        p == FirstPrefix(a)
    IN IF p >= 0 /\ p + 10 + 67 <= Len(a)
       THEN toBase64Url(U8(PointAt(a, p + 10, p + 45)))
       ELSE Undef

\* C16: the sources are tried in the order publicKey, authenticatorData,
\* attestationObject and the first that yields a key decides: the explicit
\* key as given, else the key of authenticatorData, else the key of
\* attestationObject, and undefined only when none yields a key (for
\* responses whose fields all decode)
C16_FirstSourceWithAKeyWins ==
    (/\ op.name = "extractPublicKeyFromRegistrationResponse"
     /\ Decodable(op.arg, "authenticatorData")
     /\ Decodable(op.arg, "attestationObject")) =>
        op.ret.value =
            IF Truthy(Field(op.arg, "publicKey")) THEN Field(op.arg, "publicKey")
            ELSE IF KeyOfAuthenticatorData(op.arg) # Undef
                 THEN KeyOfAuthenticatorData(op.arg)
            ELSE KeyOfAttestationObject(op.arg)

\* C17: with no explicit key and authenticatorData decoding to d, with
\* N = d[53]*256 + d[54]: when length(d) >= 55 + N + 45 + 32 the result is the
\* base64url text of the 65 bytes 0x04, d[55+N+10 .. 55+N+41],
\* d[55+N+45 .. 55+N+76]; when length(d) < 55 or d ends less than 32 bytes
\* after the Y offset the result is undefined
C17_AuthenticatorDataOffsets ==
    (/\ op.name = "extractPublicKeyFromRegistrationResponse"
     /\ ~Truthy(Field(op.arg, "publicKey"))
     /\ Truthy(Field(op.arg, "authenticatorData"))
     /\ fromBase64Url(Field(op.arg, "authenticatorData")).ok) =>
        LET d == fromBase64Url(Field(op.arg, "authenticatorData")).value.b
            N == d[54] * 256 + d[55]
        IN /\ op.ret.t = "ok"
           /\ IF Len(d) < 55 THEN op.ret.value = Undef
              ELSE IF Len(d) < 55 + N + 45 + 32 THEN op.ret.value = Undef
              ELSE /\ op.ret.value =
                        toBase64Url(U8(PointAt(d, 55 + N + 10, 55 + N + 45)))
                   /\ Len(fromBase64Url(op.ret.value).value.b) = 65

\* a key was recovered from authenticator data whose credential id is 256
\* bytes long
C17_Witness ==
    /\ op.name = "extractPublicKeyFromRegistrationResponse"
    /\ ~Truthy(Field(op.arg, "publicKey"))
    /\ DecodedField(op.arg, "authenticatorData") = AuthenticatorDataOf(256, 388)
    /\ op.ret.value # Undef

\* the recovery has come to attestationObject, whose text decodes
FellToAttestationObject ==
    /\ op.name = "extractPublicKeyFromRegistrationResponse"
    /\ ~Truthy(Field(op.arg, "publicKey"))
    /\ ~Truthy(Field(op.arg, "authenticatorData"))
    /\ Truthy(Field(op.arg, "attestationObject"))
    /\ fromBase64Url(Field(op.arg, "attestationObject")).ok

\* C18 as stated: with the first cosePrefix at offset p and 67 bytes after it,
\* the result is 0x04, the 32 bytes after the prefix, and the 32 bytes that
\* start 35 bytes after the start of the prefix
C18_YStartsAfterPrefixStart ==
    FellToAttestationObject =>
        LET a == DecodedField(op.arg, "attestationObject")
            p == FirstPrefix(a)
        IN (p >= 0 /\ p + 10 + 67 <= Len(a)) =>
               op.ret.value = toBase64Url(U8(PointAt(a, p + 10, p + 35)))

\* C18: with the first cosePrefix at offset p (forward scan), X is the 32
\* bytes right after the prefix and Y the 32 bytes that start 35 bytes after
\* the end of the prefix, 45 bytes after its start; the result is the
\* base64url text of 0x04, X, Y; it is undefined when there is no prefix or
\* fewer than 67 bytes follow the first one
C18_AttestationObjectOffsets ==
    FellToAttestationObject =>
        LET a == DecodedField(op.arg, "attestationObject")
            p == FirstPrefix(a)
        IN /\ op.ret.t = "ok"
           /\ IF p < 0 \/ p + 10 + 67 > Len(a) THEN op.ret.value = Undef
              ELSE /\ op.ret.value =
                        toBase64Url(U8(PointAt(a, p + 10, p + 10 + 35)))
                   /\ Len(fromBase64Url(op.ret.value).value.b) = 65

\* a key was recovered from an attestation object that holds the prefix twice
C18_Witness ==
    /\ FellToAttestationObject
    /\ DecodedField(op.arg, "attestationObject") =
           Filler(3) \o cosePrefix \o Filler(20) \o cosePrefix \o Filler(67)
    /\ op.ret.value # Undef

\* ------------------------------------------------------------------------
\* Properties of the normalizers behind the adapter calls (SpecAdapter)
\* ------------------------------------------------------------------------

\* C19: when the plugin's registration result has an authenticatorData or
\* attestationObject that is not base64url or is too short to hold a key,
\* startRegistration does not throw but returns the normalized result, and
\* response.publicKey is absent when no source holds a key
C19_DecodeErrorsYieldAbsence ==
    (/\ op.name = "startRegistration"
     /\ op.arg.t = "resolve"
     /\ op.arg.response.t = "ok"
     /\ \/ /\ Truthy(Field(op.arg.response.obj, "authenticatorData"))
           /\ KeyOfAuthenticatorData(op.arg.response.obj) = Undef
        \/ /\ Truthy(Field(op.arg.response.obj, "attestationObject"))
           /\ KeyOfAttestationObject(op.arg.response.obj) = Undef) =>
        /\ op.ret.t = "ok"
        /\ (/\ KeyOfAuthenticatorData(op.arg.response.obj) = Undef
            /\ KeyOfAttestationObject(op.arg.response.obj) = Undef) =>
               Field(op.ret.response, "publicKey") = Undef

\* C20: when the plugin's result has no id or no rawId, startRegistration and
\* startAuthentication end in the error their normalizer raised rather than
\* in a canonical result
C20_MissingIdIsAnError ==
    (/\ op.name \in {"startRegistration", "startAuthentication"}
     /\ op.arg.t = "resolve"
     /\ \/ Field(op.arg.obj, "id") = Undef
        \/ Field(op.arg.obj, "rawId") = Undef) =>
        op.ret.t = "throw"

\* the adapter call got a result from the plugin and returned its canonical form
Normalized ==
    /\ op.name \in {"startRegistration", "startAuthentication"}
    /\ op.arg.t = "resolve"
    /\ op.ret.t = "ok"

\* C21: whatever the type of the plugin's registration or authentication
\* result is (missing, empty, another string), the canonical result's type
\* is 'public-key'
C21_TypeIsAlwaysPublicKey ==
    Normalized => op.ret.obj.type = Str("public-key")

\* an authentication result whose type was 'webauthn.get' was normalized
C21_Witness ==
    /\ Normalized
    /\ op.name = "startAuthentication"
    /\ Field(op.arg.obj, "type") = Str("webauthn.get")

\* C22: the canonical result's clientExtensionResults is never undefined or
\* null: it is the plugin's object when the plugin gave one and the empty
\* object when it gave none
C22_ClientExtensionResultsNeverAbsent ==
    Normalized =>
        LET given == Field(op.arg.obj, "clientExtensionResults")
        IN /\ op.ret.obj.clientExtensionResults.t = "object"
           /\ op.ret.obj.clientExtensionResults =
                  IF given.t = "object" THEN given ELSE Obj("{}")

\* a result whose clientExtensionResults was null was normalized
C22_Witness ==
    /\ Normalized
    /\ Field(op.arg.obj, "clientExtensionResults") = NullValue

\* C23: userHandle of an authentication result is absent when the plugin's
\* value is missing, empty, 'null' or 'undefined', and the plugin's value
\* otherwise; authenticatorAttachment is the plugin's value when that is
\* 'platform' or 'cross-platform' and absent for anything else
C23_OptionalFieldsBecomeAbsent ==
    Normalized =>
        LET attachment == Field(op.arg.obj, "authenticatorAttachment")
            userHandle == Field(op.arg.response.obj, "userHandle")
        IN /\ op.ret.obj.authenticatorAttachment =
                  IF attachment \in {Str("platform"), Str("cross-platform")}
                  THEN attachment ELSE Undef
           /\ op.name = "startAuthentication" =>
                  op.ret.response.userHandle =
                      IF userHandle \in {Undef, NullValue, Str(""), Str("null"),
                                         Str("undefined")}
                      THEN Undef ELSE userHandle

\* an authentication result whose userHandle was the text 'undefined' was
\* normalized
C23_Witness ==
    /\ Normalized
    /\ op.name = "startAuthentication"
    /\ Field(op.arg.response.obj, "userHandle") = Str("undefined")

\* ------------------------------------------------------------------------
\* base64url of the web plugin (WebPasskeyPlugin.base64urlToUint8Array /
\* toBase64url), and both codecs applied to byte buffers (SpecBase64)
\* ------------------------------------------------------------------------
base64urlToUint8Array(base64url) ==
    LET replaced == [i \in 1..Len(base64url.b) |->
                        IF base64url.b[i] = Minus THEN 62
                        ELSE IF base64url.b[i] = Underscore THEN 63
                        ELSE base64url.b[i]]
        targetLength == ((Len(base64url.b) + 3) \div 4) * 4
        binary == atob(replaced \o
                       [i \in 1..(targetLength - Len(replaced)) |-> Pad])
    IN [ok |-> binary.ok, value |-> U8(binary.bytes)]

\* replace(/=/g, '') drops every '=', wherever it stands
toBase64url(bytes) ==
    LET base64 == btoa(bytes.b)
        urlSafe == [i \in 1..Len(base64) |->
                       IF base64[i] = 62 THEN Minus
                       ELSE IF base64[i] = 63 THEN Underscore
                       ELSE base64[i]]
    IN Txt(SelectSeq(urlSafe, LAMBDA ch : ch # Pad))

\* buffers of up to MaxBufferLen bytes; the bytes 190, 251 and 255 bring the
\* sextets 62 and 63 into the text
EncodeBuffer ==
    \E length \in 0..MaxBufferLen :
        \E bytes \in [1..length -> {0, 65, 190, 251, 255}] :
            /\ op' = AdapterCall("toBase64Url", U8(bytes),
                                 [adapter |-> toBase64Url(U8(bytes)),
                                  web |-> toBase64url(U8(bytes))])
            /\ UNCHANGED <<memory, lastSession>>

SpecBase64 == InitAdapter /\ [][EncodeBuffer]_vars

\* ------------------------------------------------------------------------
\* Properties of the base64url codecs (SpecBase64)
\* ------------------------------------------------------------------------

\* C24: decoding the base64url text of a buffer gives the buffer back, and
\* the text holds no '+', '/' or '=' (adapter and web plugin alike)
C24_Base64UrlRoundTrips ==
    op.name = "toBase64Url" =>
        /\ fromBase64Url(op.ret.adapter) = [ok |-> TRUE, value |-> op.arg]
        /\ base64urlToUint8Array(op.ret.web) = [ok |-> TRUE, value |-> op.arg]
        /\ \A text \in {op.ret.adapter, op.ret.web} :
               \A i \in 1..Len(text.b) : text.b[i] \notin {62, 63, Pad}

\* a buffer whose text has '-' and '_' and would need padding was encoded
C24_Witness ==
    /\ op.name = "toBase64Url"
    /\ op.arg = U8(<<251, 255>>)
    /\ op.ret.adapter = Txt(<<Minus, Underscore, 60>>)

\* ------------------------------------------------------------------------
\* Index and values under sequential calls (Spec)
\* ------------------------------------------------------------------------

\* C25: with calls run one at a time from an empty store, after every call
\* each indexed id has a stored value and each stored credential value is
\* that of an indexed id
C25_IndexAndValuesAgree ==
    LET index == getCredentialIndex(Prefix, memory)
    IN /\ \A i \in 1..Len(index) :
              PrefGet(memory, credentialKey(Prefix, index[i])) # NullString
       /\ \A key \in DOMAIN memory \ {indexKey(Prefix), sessionKey(Prefix)} :
              \E i \in 1..Len(index) : key = credentialKey(Prefix, index[i])

\* a delete has completed and left the other credential stored and indexed
C25_Witness ==
    /\ op.name = "delete"
    /\ op.existed
    /\ Len(getCredentialIndex(Prefix, memory)) = 1

\* ------------------------------------------------------------------------
\* Two callers of one adapter whose calls interleave at every await
\* (SpecConcurrent). op.calls[caller] is the call of that caller: its name
\* and id, the await it stands before (pc), the locals it carries across
\* awaits (credential, index) and the calls that ran while it did (peers).
\* ------------------------------------------------------------------------
\* the call returns: its locals are gone
Return(call) ==
    [call EXCEPT !.pc = "done", !.credential = EmptyObj, !.index = <<>>]

InitConcurrent ==
    /\ memory = EmptyMemory
    /\ op = [calls |->
                [caller \in 1..2 |->
                    [name |-> "none", id |-> "", pc |-> "done",
                     credential |-> EmptyObj, index |-> <<>>, peers |-> {}]]]
    /\ lastSession = SessionCall("cleared", EmptyObj)

\* a caller whose previous call has returned issues save, delete or update;
\* peers of a call: the one call that ran beside it, or the mark that there
\* were several
Begin(caller) ==
    /\ op.calls[caller].pc = "done"
    /\ \E name \in {"save", "delete", "update"}, id \in Ids :
           LET other == op.calls[3 - caller]
               running == other.pc # "done"
               started ==
                   [name |-> name, id |-> id,
                    pc |-> IF name = "update" THEN "get" ELSE "getCredentialIndex",
                    credential |-> IF name = "save"
                                   THEN makeCredential(id, KeyOfLength(1), "C1")
                                   ELSE [nickname |-> Str("after")],
                    index |-> <<>>,
                    peers |-> IF running
                              THEN {[name |-> other.name, id |-> other.id]}
                              ELSE {}]
           IN op' = [calls |->
                        [c \in 1..2 |->
                            IF c = caller THEN started
                            ELSE IF running
                            THEN [other EXCEPT !.peers =
                                     IF @ \subseteq {[name |-> name, id |-> id]}
                                     THEN {[name |-> name, id |-> id]}
                                     ELSE {[name |-> "several", id |-> ""]}]
                            ELSE other]]
    /\ UNCHANGED <<memory, lastSession>>

\* update: const credential = await this.get(credentialId); return if null,
\* else enter save with the merged record
ReadCredential(caller) ==
    LET call == op.calls[caller]
        credential == get(Prefix, memory, call.id)
    IN /\ call.pc = "get"
       /\ op' = [op EXCEPT !.calls[caller] =
                    IF credential.t # "ok" THEN Return(call)
                    ELSE [call EXCEPT
                             !.pc = "getCredentialIndex",
                             !.credential = UpdateMerged(credential.obj, call.credential)]]
       /\ UNCHANGED <<memory, lastSession>>

\* save, delete: const index = await this.getCredentialIndex(preferences)
ReadIndex(caller) ==
    LET call == op.calls[caller]
    IN /\ call.pc = "getCredentialIndex"
       /\ op' = [op EXCEPT !.calls[caller] =
                    [call EXCEPT
                        !.index = getCredentialIndex(Prefix, memory),
                        !.pc = IF call.name = "delete" THEN "remove" ELSE "set"]]
       /\ UNCHANGED <<memory, lastSession>>

\* a value write that persists the index in the same step
WriteValueWithIndex(caller) ==
    LET call == op.calls[caller]
        key == credentialKey(Prefix, call.id)
    IN /\ call.pc \in {"set", "remove"}
       /\ memory' =
              IF call.name = "delete"
              THEN setCredentialIndex(Prefix, PrefRemove(memory, key),
                       SelectSeq(call.index, LAMBDA id : id # call.id))
              ELSE setCredentialIndex(Prefix,
                       PrefSet(memory, key,
                           JSONstringifyObject(serializeCredential(call.credential))),
                       IF includes(call.index, call.id) THEN call.index
                       ELSE Append(call.index, call.id))
       /\ op' = [op EXCEPT !.calls[caller] =
                    IF call.name # "delete" /\ includes(call.index, call.id)
                    THEN Return(call) ELSE [call EXCEPT !.pc = "setCredentialIndex"]]
       /\ UNCHANGED lastSession

\* save: await preferences.set(value), then the includes test on the index
\* read earlier; delete: await preferences.remove(value)
WriteValue(caller) ==
    LET call == op.calls[caller]
        key == credentialKey(Prefix, call.id)
    IN /\ call.pc \in {"set", "remove"}
       /\ memory' =
              IF call.name = "delete" THEN PrefRemove(memory, key)
              ELSE PrefSet(memory, key,
                       JSONstringifyObject(serializeCredential(call.credential)))
       /\ op' = [op EXCEPT !.calls[caller] =
                    IF call.name # "delete" /\ includes(call.index, call.id)
                    THEN Return(call) ELSE [call EXCEPT !.pc = "setCredentialIndex"]]
       /\ UNCHANGED lastSession

\* a save that persists the index it read without pushing its id
WriteIndexWithoutPush(caller) ==
    LET call == op.calls[caller]
    IN /\ call.pc = "setCredentialIndex"
       /\ memory' = setCredentialIndex(Prefix, memory,
                        SelectSeq(call.index, LAMBDA id : id # call.id))
       /\ op' = [op EXCEPT !.calls[caller] = Return(call)]
       /\ UNCHANGED lastSession

\* save: index.push(id); await this.setCredentialIndex(index);
\* delete: await this.setCredentialIndex(index.filter(...))
WriteIndex(caller) ==
    LET call == op.calls[caller]
    IN /\ call.pc = "setCredentialIndex"
       /\ memory' = setCredentialIndex(Prefix, memory,
                        IF call.name = "delete"
                        THEN SelectSeq(call.index, LAMBDA id : id # call.id)
                        ELSE Append(call.index, call.id))
       /\ op' = [op EXCEPT !.calls[caller] = Return(call)]
       /\ UNCHANGED lastSession

NextConcurrent ==
    \E caller \in 1..2 :
        \/ Begin(caller)
        \/ ReadCredential(caller)
        \/ ReadIndex(caller)
        \/ WriteValue(caller)
        \/ WriteIndex(caller)

SpecConcurrent == InitConcurrent /\ [][NextConcurrent]_vars

\* ------------------------------------------------------------------------
\* Properties of interleaved calls (SpecConcurrent)
\* ------------------------------------------------------------------------
Stored(credentialId) ==
    PrefGet(memory, credentialKey(Prefix, credentialId)) # NullString

Indexed(credentialId) ==
    includes(getCredentialIndex(Prefix, memory), credentialId)

\* the two calls have returned and ran concurrently with each other only
RanTogether(first, second) ==
    /\ first.pc = "done" /\ second.pc = "done"
    /\ first.peers = {[name |-> second.name, id |-> second.id]}
    /\ second.peers = {[name |-> first.name, id |-> first.id]}

\* C26: the value write of save and of delete is a step of its own: it
\* changes the value key and leaves the index as it was, the index write
\* being still to come
C26_ValueAndIndexAreWrittenApart ==
    [][\A caller \in 1..2 :
           LET call == op.calls[caller]
               key == credentialKey(Prefix, call.id)
           IN (call.pc \in {"set", "remove"}
                   /\ op'.calls[caller].pc = "setCredentialIndex") =>
                  /\ getCredentialIndex(Prefix, memory')
                         = getCredentialIndex(Prefix, memory)
                  /\ (PrefGet(memory', key) = NullString) <=> (call.pc = "remove")
                  /\ call.pc = "set" => ~includes(call.index, call.id)]_vars

\* a save stands between its two writes with its value stored and not
\* indexed, while a delete stands between its two writes with its id indexed
\* and the value gone
C26_Witness ==
    \E caller \in 1..2 :
        LET saving == op.calls[caller]
            deleting == op.calls[3 - caller]
        IN /\ saving.name = "save" /\ saving.pc = "setCredentialIndex"
           /\ Stored(saving.id) /\ ~Indexed(saving.id)
           /\ deleting.name = "delete" /\ deleting.pc = "setCredentialIndex"
           /\ Indexed(deleting.id) /\ ~Stored(deleting.id)

\* C27: after two concurrent saves of different ids both values are readable
\* through get and the index holds at least one of the two ids (the id of
\* the save that wrote the index last)
C27_ConcurrentSavesKeepValues ==
    LET first == op.calls[1]
        second == op.calls[2]
    IN (/\ first.name = "save" /\ second.name = "save"
        /\ first.id # second.id
        /\ RanTogether(first, second)) =>
           /\ get(Prefix, memory, first.id).t = "ok"
           /\ get(Prefix, memory, second.id).t = "ok"
           /\ Indexed(first.id) \/ Indexed(second.id)

\* both saves have returned, the index holds one id only, and getAll omits
\* the credential that get(id) returns
C27_Witness ==
    LET first == op.calls[1]
        second == op.calls[2]
    IN /\ first.name = "save" /\ second.name = "save"
       /\ first.id # second.id
       /\ RanTogether(first, second)
       /\ getCredentialIndex(Prefix, memory) = <<second.id>>
       /\ Len(getAll(Prefix, memory).list) = 1
       /\ get(Prefix, memory, first.id).t = "ok"

\* C29: once a delete(id) and an update(id) that ran concurrently, with no
\* other call beside them, have both returned, id has no stored value and is
\* not in the index
C29_UpdateNeverCreatesUnderInterleaving ==
    \A caller \in 1..2 :
        LET deleting == op.calls[caller]
            updating == op.calls[3 - caller]
        IN (/\ deleting.name = "delete" /\ updating.name = "update"
            /\ deleting.id = updating.id
            /\ RanTogether(deleting, updating)) =>
               ~Stored(deleting.id) /\ ~Indexed(deleting.id)

\* ------------------------------------------------------------------------
\* PasskeyCredentialDelegate (iOS): one delegate on the main actor
\* (SpecDelegate). op holds the delegate's fields (hasCompleted, completion,
\* timeoutTimer), the run-loop timer (none, scheduled, fired, invalidated),
\* whether the Task that the fired timer spawned is still queued, the
\* results handed to completeOnce (arrivals) and those the completion
\* handler received (invoked).
\* ------------------------------------------------------------------------

\* a completeOnce without the guard that leaves the completion in place
completeOnceUnguarded(delegate, result) ==
    [delegate EXCEPT
        !.hasCompleted = TRUE,
        !.timer = IF delegate.timeoutTimer = "timer" /\ @ = "scheduled"
                  THEN "invalidated" ELSE @,
        !.timeoutTimer = "nil",
        !.invoked = IF delegate.completion = "set" THEN Append(@, result) ELSE @]

\* completeOnce(with:), cleanupTimer() included; invalidating a timer that
\* has fired changes nothing
completeOnce(delegate, result) ==
    IF delegate.hasCompleted THEN delegate
    ELSE [delegate EXCEPT
             !.hasCompleted = TRUE,
             !.timer = IF delegate.timeoutTimer = "timer" /\ @ = "scheduled"
                       THEN "invalidated" ELSE @,
             !.timeoutTimer = "nil",
             !.invoked = IF delegate.completion = "set" THEN Append(@, result) ELSE @,
             !.completion = "nil"]

InitDelegate ==
    /\ memory = EmptyMemory
    /\ op = [name |-> "init", hasCompleted |-> FALSE, completion |-> "nil",
             timeoutTimer |-> "nil", timer |-> "none", task |-> FALSE,
             arrivals |-> <<>>, invoked |-> <<>>]
    /\ lastSession = SessionCall("cleared", EmptyObj)

\* timeout: nil, or an interval in milliseconds
PerformAuthForController ==
    /\ op.name = "init"
    /\ \E timeout \in {[given |-> FALSE, interval |-> 0],
                       [given |-> TRUE, interval |-> 0],
                       [given |-> TRUE, interval |-> 60000]} :
           LET armed == timeout.given /\ timeout.interval > 0
           IN op' = [op EXCEPT
                        !.name = "performAuthForController",
                        !.completion = "set",
                        !.timeoutTimer = IF armed THEN "timer" ELSE "nil",
                        !.timer = IF armed THEN "scheduled" ELSE "none"]
    /\ UNCHANGED <<memory, lastSession>>

\* the controller reports an authorization; a credential of none of the four
\* handled classes is a failure with code -300
DidCompleteWithAuthorization ==
    /\ op.name # "init"
    /\ Len(op.arrivals) < MaxArrivals
    /\ \E credential \in {"PlatformRegistration", "PlatformAssertion",
                          "SecurityKeyRegistration", "SecurityKeyAssertion",
                          "Other"} :
           LET result == IF credential = "Other"
                         THEN [t |-> "failure", of |-> "PasskeyDelegate", code |-> -300]
                         ELSE [t |-> "success", of |-> credential, code |-> 0]
           IN op' = [completeOnce(op, result) EXCEPT
                        !.name = "didCompleteWithAuthorization",
                        !.arrivals = Append(@, result)]
    /\ UNCHANGED <<memory, lastSession>>

DidCompleteWithError ==
    /\ op.name # "init"
    /\ Len(op.arrivals) < MaxArrivals
    /\ LET result == [t |-> "failure", of |-> "ASAuthorizationError", code |-> 1001]
       IN op' = [completeOnce(op, result) EXCEPT
                    !.name = "didCompleteWithError",
                    !.arrivals = Append(@, result)]
    /\ UNCHANGED <<memory, lastSession>>

\* the scheduled timer fires on the run loop: its block spawns the main-actor
\* Task that will call handleTimeout
TimerFires ==
    /\ op.timer = "scheduled"
    /\ op' = [op EXCEPT !.name = "timer", !.timer = "fired", !.task = TRUE]
    /\ UNCHANGED <<memory, lastSession>>

\* the spawned Task runs handleTimeout
HandleTimeout ==
    /\ op.task
    /\ LET result == [t |-> "failure", of |-> "PasskeyTimeout", code |-> -1004]
       IN op' = [completeOnce(op, result) EXCEPT
                    !.name = "handleTimeout",
                    !.task = FALSE,
                    !.arrivals = Append(@, result)]
    /\ UNCHANGED <<memory, lastSession>>

NextDelegate ==
    \/ PerformAuthForController
    \/ DidCompleteWithAuthorization
    \/ DidCompleteWithError
    \/ TimerFires
    \/ HandleTimeout

SpecDelegate == InitDelegate /\ [][NextDelegate]_vars

\* ------------------------------------------------------------------------
\* Properties of the iOS delegate (SpecDelegate)
\* ------------------------------------------------------------------------

\* C28: the completion handler receives the first result handed to
\* completeOnce and nothing else; from then on hasCompleted is set, the timer
\* is no longer scheduled and the timer and completion references are nil
C28_CompletesOnceWithFirstArrival ==
    IF op.arrivals = <<>>
    THEN op.invoked = <<>> /\ ~op.hasCompleted
    ELSE /\ op.invoked = <<op.arrivals[1]>>
         /\ op.hasCompleted
         /\ op.timer # "scheduled"
         /\ op.timeoutTimer = "nil"
         /\ op.completion = "nil"

\* the timer had fired, an authorization arrived before the timeout Task ran
\* and won, and the timeout and an error arrived after it
C28_Witness ==
    /\ Len(op.arrivals) = 3
    /\ op.arrivals[1].t = "success"
    /\ \E i \in 2..3 : op.arrivals[i].of = "PasskeyTimeout"
    /\ \E i \in 2..3 : op.arrivals[i].of = "ASAuthorizationError"

\* ------------------------------------------------------------------------
\* WebPasskeyPlugin.createPasskey / authenticate: the browser credential
\* promise raced against the timeout (SpecWeb, and SpecWebFair with the
\* event loop running every timer callback that is due). op holds the
\* method, the timeout in effect, the timer (none, armed, fired), the browser
\* promise (none, pending, or what it settled with), the awaited promise
\* (none, pending, settled) and the outcomes with which the call has settled.
\* ------------------------------------------------------------------------
InitWeb ==
    /\ memory = EmptyMemory
    /\ op = [name |-> "init", timeout |-> 0, timer |-> "none",
             browser |-> "none", awaited |-> "none", outcomes |-> <<>>]
    /\ lastSession = SessionCall("cleared", EmptyObj)

\* the call up to its await: the support and publicKey checks, then
\* timeout = options.timeout || 60000, the browser request, and the timer
\* when timeout > 0
InvokeWeb ==
    /\ op.name = "init"
    /\ \E name \in {"createPasskey", "authenticate"} :
          \/ \E code \in {"UNSUPPORTED_ERROR", "UNKNOWN_ERROR"} :
                 op' = [op EXCEPT
                           !.name = name,
                           !.outcomes = <<[t |-> "reject", code |-> code,
                                           from |-> "validation"]>>]
          \/ \E option \in {[given |-> FALSE, ms |-> 0],
                            [given |-> TRUE, ms |-> 0],
                            [given |-> TRUE, ms |-> 1],
                            [given |-> TRUE, ms |-> 5000],
                            [given |-> TRUE, ms |-> -1]} :
                 LET timeout == IF option.given /\ option.ms # 0
                                THEN option.ms ELSE 60000
                 IN op' = [op EXCEPT
                              !.name = name,
                              !.timeout = timeout,
                              !.timer = IF timeout > 0 THEN "armed" ELSE "none",
                              !.browser = "pending",
                              !.awaited = "pending"]
    /\ UNCHANGED <<memory, lastSession>>

\* the awaited promise settles with the first outcome and ignores the rest;
\* the call settles with it
Settle(call, outcome) ==
    IF call.awaited # "pending" THEN call
    ELSE [call EXCEPT !.awaited = "settled", !.outcomes = Append(@, outcome)]

\* navigator.credentials.create / get settles: with a credential, with
\* null, with a response of another type, or with a DOMException that the
\* catch block maps by name
BrowserSettles ==
    /\ op.browser = "pending"
    /\ \E result \in {"credential", "null", "otherResponse", "NotAllowedError",
                      "SecurityError", "NotSupportedError", "InvalidStateError"} :
           LET outcome ==
                   IF result = "credential"
                   THEN [t |-> "resolve", code |-> "", from |-> "browser"]
                   ELSE [t |-> "reject",
                         code |-> IF result = "null" /\ op.name = "authenticate"
                                  THEN "NO_CREDENTIAL"
                                  ELSE IF result = "NotAllowedError" THEN "CANCELLED"
                                  ELSE IF result = "SecurityError" THEN "DOM_ERROR"
                                  ELSE IF result = "NotSupportedError"
                                  THEN "UNSUPPORTED_ERROR"
                                  ELSE "UNKNOWN_ERROR",
                         from |-> "browser"]
           IN op' = [Settle(op, outcome) EXCEPT !.browser = result]
    /\ UNCHANGED <<memory, lastSession>>

\* the setTimeout callback runs: reject(error) with code TIMEOUT
TimeoutElapses ==
    /\ op.timer = "armed"
    /\ op' = [Settle(op, [t |-> "reject", code |-> "TIMEOUT", from |-> "timeout"])
                 EXCEPT !.timer = "fired"]
    /\ UNCHANGED <<memory, lastSession>>

NextWeb == InvokeWeb \/ BrowserSettles \/ TimeoutElapses

SpecWeb == InitWeb /\ [][NextWeb]_vars

\* the event loop runs the callback of a timer that is due; nothing makes
\* the browser promise settle
SpecWebFair == SpecWeb /\ WF_vars(TimeoutElapses)

\* ------------------------------------------------------------------------
\* Properties of the web timeout race (SpecWebFair)
\* ------------------------------------------------------------------------

\* C30: a createPasskey or authenticate call always settles, exactly once,
\* by the browser promise or by the timeout, whichever comes first
C30_CallAlwaysSettlesOnce ==
    /\ [](Len(op.outcomes) <= 1)
    /\ (op.name \in {"createPasskey", "authenticate"}) ~> (Len(op.outcomes) = 1)
====
